---- MODULE Spec2Model ----
(***************************************************************************)
(* Model of the ping exit-condition subsystem (ping/ping_exit.c,           *)
(* ping/ping_exit.h): the -x option parser, the per-probe evaluator, the   *)
(* ping map ring buffer and the exit status translation.                   *)
(*                                                                         *)
(* C strings are tuples of one-character strings; the byte at C index i    *)
(* of a tuple s is s[i+1], and the index Len(s) holds the terminating NUL. *)
(***************************************************************************)
EXTENDS Integers, Sequences, FiniteSets, TLC

(* ------------------------------ bounds --------------------------------- *)

\* Probes the probe loop completes in the runs of Spec.
MaxProbes == 6

\* Largest expected count among the option strings of Spec.
MaxExpect == 3

\* Largest total the probe loop reaches in the runs of SpecCaller.
MaxCallerTotal == 4

\* Probes the probe loop completes in the runs of SpecMap.
MaxMapProbes == 1030

\* Period of the outcome scripts the probe loop follows in SpecMap.
ScriptLen == 2

\* Probes the probe loop completes in the runs of SpecReport.
MaxReportProbes == 3

\* Reports the tool prints in the runs of SpecReport.
MaxReports == 2

\* Probes the probe loop completes in the runs of SpecParse.
MaxParseProbes == 4

\* Probes the probe loop completes in the runs of SpecTotals.
MaxTotalProbes == 12

(* --------------------------- ping_exit.h ------------------------------- *)

EXIT_COUNT_FAILED == 1
EXIT_SEQUENCE == 2
EXIT_COND_STATUS == 4
EXIT_REPORT_SUCCESS == 8
EXIT_REPORT_FAILURES == 16
EXIT_REPORT_MAP == 32
EXIT_REPORT_SILENT == 64
EXIT_REPORT_STATE == 128

\* A flags word is modelled as the set of the bits set in it.
EXIT_COND_LOC_FLAGS == {EXIT_SEQUENCE}

EXIT_REPORT_FLAGS ==
    {EXIT_REPORT_SUCCESS, EXIT_REPORT_FAILURES, EXIT_REPORT_MAP, EXIT_REPORT_STATE}

EXIT_DEFAULT_SUCCESS_MAP == "+"
EXIT_DEFAULT_FAILURE_MAP == "-"

EXIT_COND_OPTIONS == {"x", "n", "N", "m", "q", "c"}

EXIT_COND_DEFAULT_MAP_SIZE == 100
EXIT_COND_MAX_INITIAL_MAP_SIZE == 512
EXIT_COND_MAP_EXTENSION == 512

EXIT_COND_MAP_CHAR_FAILED_IDX == 0
EXIT_COND_MAP_CHAR_SUCCESS_IDX == 1

\* The null pointer, the NUL byte, and a byte malloc/realloc left unset.
NULL == <<>>
NUL == "NUL"
UNINIT == "UNINIT"

\* INIT_EXIT_CONDITION: the descriptor as parse_exit_cond first fills it.
INIT_EXIT_CONDITION ==
    [ expect        |-> 0,
      ntransmitted  |-> 0,
      nreceived     |-> 0,
      sequence      |-> 0,
      condition_met |-> FALSE,
      map_chars     |-> [i \in {0, 1} |->
                           IF i = 0 THEN EXIT_DEFAULT_FAILURE_MAP
                                    ELSE EXIT_DEFAULT_SUCCESS_MAP],
      map_size      |-> 0,
      mapper_pos    |-> 0,
      max_map_size  |-> EXIT_COND_DEFAULT_MAP_SIZE,
      ping_map      |-> NULL,
      flags         |-> {} ]

(* ------------------------------ memory --------------------------------- *)

\* The byte at C index i of the block m.
Byte(m, i) == m[i + 1]

\* The block m with the byte at C index i set to c.
SetByte(m, i, c) == [m EXCEPT ![i + 1] = c]

\* malloc(n): n bytes, none of them initialised.
Malloc(n) == [i \in 1..n |-> UNINIT]

\* realloc(m, n): the old bytes kept, the added ones not initialised.
Realloc(m, n) == [i \in 1..n |-> IF i <= Len(m) THEN m[i] ELSE UNINIT]

SetMin(S) == CHOOSE i \in S : \A j \in S : i <= j

\* What fputs(m + from, stdout) prints: the bytes from C index `from` up to
\* the first NUL. A block with no NUL after `from` is read past its end.
CString(m, from) ==
    LET nuls == {i \in from..(Len(m) - 1) : Byte(m, i) = NUL}
        end  == IF nuls = {} THEN Len(m) ELSE SetMin(nuls)
        body == [k \in 1..(end - from) |-> Byte(m, from + k - 1)]
    IN  IF nuls = {} THEN Append(body, "OVERRUN") ELSE body

(* ------------------------------ ping map ------------------------------- *)

get_exit_cond_success(cond) == cond.nreceived

\* get_exit_cond_failures returning the transmitted total.
get_exit_cond_failures_total(cond) == cond.ntransmitted

get_exit_cond_failures(cond) == cond.ntransmitted - cond.nreceived

\* extend_ping_map allocating max_map_size slots at once, without the
\* ceiling EXIT_COND_MAX_INITIAL_MAP_SIZE.
extend_ping_map_no_ceiling(cond) ==
    IF cond.ping_map = NULL
    THEN LET size == cond.max_map_size
         IN  [cond EXCEPT !.map_size = size,
                          !.ping_map = SetByte(Malloc(size + 1), size - 1, NUL),
                          !.mapper_pos = 0]
    ELSE IF cond.map_size >= cond.max_map_size
    THEN cond
    ELSE LET grown == cond.map_size + EXIT_COND_MAP_EXTENSION
             size  == IF grown > cond.max_map_size THEN cond.max_map_size ELSE grown
         IN  [cond EXCEPT !.map_size = size,
                          !.ping_map = SetByte(Realloc(cond.ping_map, size + 1),
                                               size - 1, NUL)]

\* extend_ping_map: the first call allocates min(max_map_size, 512)+1 bytes,
\* a later one grows the block by 512 up to max_map_size; either sets the
\* wrap marker in the last slot. A block already at max_map_size is left.
extend_ping_map(cond) ==
    IF cond.ping_map = NULL
    THEN LET size == IF cond.max_map_size <= EXIT_COND_MAX_INITIAL_MAP_SIZE
                     THEN cond.max_map_size
                     ELSE EXIT_COND_MAX_INITIAL_MAP_SIZE
         IN  [cond EXCEPT !.map_size = size,
                          !.ping_map = SetByte(Malloc(size + 1), size - 1, NUL),
                          !.mapper_pos = 0]
    ELSE IF cond.map_size >= cond.max_map_size
    THEN cond
    ELSE LET grown == cond.map_size + EXIT_COND_MAP_EXTENSION
             size  == IF grown > cond.max_map_size THEN cond.max_map_size ELSE grown
         IN  [cond EXCEPT !.map_size = size,
                          !.ping_map = SetByte(Realloc(cond.ping_map, size + 1),
                                               size - 1, NUL)]

\* The write position of a map_ping that never wraps around.
map_ping_pos_no_wrap(cond, ext) == cond.mapper_pos

\* The write position map_ping uses: the stored one, or 0 when the map is
\* full and extend_ping_map could not grow it.
map_ping_pos(cond, ext) ==
    IF cond.mapper_pos = cond.map_size /\ cond.mapper_pos = ext.map_size
    THEN 0
    ELSE cond.mapper_pos

\* map_ping with the glyph of the other outcome recorded.
map_ping_swapped(cond, status) ==
    LET c   == cond.map_chars[IF status THEN EXIT_COND_MAP_CHAR_FAILED_IDX
                                        ELSE EXIT_COND_MAP_CHAR_SUCCESS_IDX]
        ext == IF cond.mapper_pos = cond.map_size THEN extend_ping_map(cond) ELSE cond
        pos == map_ping_pos(cond, ext)
    IN  [ cond  |-> [ext EXCEPT !.ping_map = SetByte(ext.ping_map, pos, c),
                                !.mapper_pos = pos + 1],
          abort |-> ~(pos + 1 <= ext.map_size) ]

\* map_ping: [cond, abort]; abort is the failure of assert(pos <= map_size).
map_ping(cond, status) ==
    LET c   == cond.map_chars[IF status THEN EXIT_COND_MAP_CHAR_SUCCESS_IDX
                                        ELSE EXIT_COND_MAP_CHAR_FAILED_IDX]
        ext == IF cond.mapper_pos = cond.map_size THEN extend_ping_map(cond) ELSE cond
        pos == map_ping_pos(cond, ext)
    IN  [ cond  |-> [ext EXCEPT !.ping_map = SetByte(ext.ping_map, pos, c),
                                !.mapper_pos = pos + 1],
          abort |-> ~(pos + 1 <= ext.map_size) ]

\* print_ping_map with the two parts of a wrapped ring printed in the
\* wrong order: the start of the block first, then its end.
print_ping_map_swapped(cond) ==
    LET map_size   == cond.map_size
        mapper_pos == cond.mapper_pos
    IN  IF Byte(cond.ping_map, map_size - 1) # NUL /\ mapper_pos < map_size
        THEN LET m1   == SetByte(cond.ping_map, map_size, NUL)
                 out1 == CString(m1, mapper_pos)
                 keep == Byte(m1, mapper_pos)
                 m2   == SetByte(m1, mapper_pos, NUL)
                 out2 == CString(m2, 0)
                 m3   == SetByte(m2, mapper_pos, keep)
             IN  [cond |-> [cond EXCEPT !.ping_map = m3], out |-> out2 \o out1]
        ELSE LET m1 == SetByte(cond.ping_map, mapper_pos, NUL)
             IN  [cond |-> [cond EXCEPT !.ping_map = m1], out |-> CString(m1, 0)]

\* print_ping_map without the restore of the glyph under the temporary
\* terminator.
print_ping_map_no_restore(cond) ==
    LET map_size   == cond.map_size
        mapper_pos == cond.mapper_pos
    IN  IF Byte(cond.ping_map, map_size - 1) # NUL /\ mapper_pos < map_size
        THEN LET m1   == SetByte(cond.ping_map, map_size, NUL)
                 out1 == CString(m1, mapper_pos)
                 m2   == SetByte(m1, mapper_pos, NUL)
                 out2 == CString(m2, 0)
             IN  [cond |-> [cond EXCEPT !.ping_map = m2], out |-> out1 \o out2]
        ELSE LET m1 == SetByte(cond.ping_map, mapper_pos, NUL)
             IN  [cond |-> [cond EXCEPT !.ping_map = m1], out |-> CString(m1, 0)]

\* print_ping_map(cond, FALSE): [cond, out], the descriptor afterwards and
\* the text written to stdout.
print_ping_map(cond) ==
    LET map_size   == cond.map_size
        mapper_pos == cond.mapper_pos
    IN  IF Byte(cond.ping_map, map_size - 1) # NUL /\ mapper_pos < map_size
        THEN LET m1   == SetByte(cond.ping_map, map_size, NUL)
                 out1 == CString(m1, mapper_pos)
                 keep == Byte(m1, mapper_pos)
                 m2   == SetByte(m1, mapper_pos, NUL)
                 out2 == CString(m2, 0)
                 m3   == SetByte(m2, mapper_pos, keep)
             IN  [cond |-> [cond EXCEPT !.ping_map = m3], out |-> out1 \o out2]
        ELSE LET m1 == SetByte(cond.ping_map, mapper_pos, NUL)
             IN  [cond |-> [cond EXCEPT !.ping_map = m1], out |-> CString(m1, 0)]

(* ------------------------------ evaluator ------------------------------ *)

\* The advance of the caller's totals over the stored ones.
nsuccess_of(rts) == rts.nreceived - rts.opt_exit_cond.nreceived

nfailure_of(rts) ==
    rts.ntransmitted - rts.opt_exit_cond.ntransmitted - nsuccess_of(rts)

\* The condition of assert( !(nsuccess == 1) != !(nfailure ==1) ).
advance_asserted(nsuccess, nfailure) == (~(nsuccess = 1)) # (~(nfailure = 1))

\* The outcome the call is classified as: status=(nsuccess > 0).
probe_status(nsuccess) == nsuccess > 0

\* The stored totals brought up to the caller's.
store_totals(cond, rts) ==
    [cond EXCEPT !.ntransmitted = rts.ntransmitted, !.nreceived = rts.nreceived]

\* sequence_update without the reset on a non-matching outcome.
sequence_update_no_reset(cond, status) ==
    IF EXIT_COUNT_FAILED \in cond.flags
    THEN (IF status THEN cond.sequence ELSE cond.sequence + 1)
    ELSE (IF status THEN cond.sequence + 1 ELSE cond.sequence)

\* The streak after an outcome, in SEQUENCE mode.
sequence_update(cond, status) ==
    IF EXIT_COUNT_FAILED \in cond.flags
    THEN (IF status THEN 0 ELSE cond.sequence + 1)
    ELSE (IF status THEN cond.sequence + 1 ELSE 0)

\* The value _check_exit_condition returns in SEQUENCE mode.
sequence_satisfied(cond) == cond.sequence = cond.expect

\* cumulative_satisfied with > for >=.
cumulative_satisfied_strict(cond) ==
    IF EXIT_COUNT_FAILED \in cond.flags
    THEN (cond.ntransmitted - cond.nreceived) > cond.expect
    ELSE cond.nreceived > cond.expect

\* cumulative_satisfied with == for >=.
cumulative_satisfied_exact(cond) ==
    IF EXIT_COUNT_FAILED \in cond.flags
    THEN (cond.ntransmitted - cond.nreceived) = cond.expect
    ELSE cond.nreceived = cond.expect

\* The value _check_exit_condition returns in CUMULATIVE mode.
cumulative_satisfied(cond) ==
    IF EXIT_COUNT_FAILED \in cond.flags
    THEN (cond.ntransmitted - cond.nreceived) >= cond.expect
    ELSE cond.nreceived >= cond.expect

\* _check_exit_condition: [rts, ret, abort]; abort is a failed assert.
_check_exit_condition(rts) ==
    IF rts.opt_exit_cond = NULL
    THEN [rts |-> rts, ret |-> FALSE, abort |-> FALSE]
    ELSE
    LET cond     == rts.opt_exit_cond
        nsuccess == nsuccess_of(rts)
        nfailure == nfailure_of(rts)
    IN  IF nsuccess = 0 /\ nfailure = 0
        THEN [rts |-> rts, ret |-> FALSE, abort |-> FALSE]
        ELSE IF ~advance_asserted(nsuccess, nfailure)
        THEN [rts |-> rts, ret |-> FALSE, abort |-> TRUE]
        ELSE
        LET status == probe_status(nsuccess)
            c1     == store_totals(cond, rts)
            mapped == IF EXIT_REPORT_MAP \in c1.flags
                      THEN map_ping(c1, status)
                      ELSE [cond |-> c1, abort |-> FALSE]
            c2     == mapped.cond
        IN  IF mapped.abort
            THEN [rts |-> [rts EXCEPT !.opt_exit_cond = c2],
                  ret |-> FALSE, abort |-> TRUE]
            ELSE IF EXIT_SEQUENCE \in c2.flags
            THEN LET c3 == [c2 EXCEPT !.sequence = sequence_update(c2, status)]
                 IN  [rts |-> [rts EXCEPT !.opt_exit_cond = c3],
                      ret |-> sequence_satisfied(c3), abort |-> FALSE]
            ELSE [rts |-> [rts EXCEPT !.opt_exit_cond = c2],
                  ret |-> cumulative_satisfied(c2), abort |-> FALSE]

\* The descriptor after a satisfied call: condition_met=TRUE.
set_condition_met(cond) == [cond EXCEPT !.condition_met = TRUE]

\* The process-wide status set to met without the test that it is armed.
set_global_status_unarmed(g) == 1

\* The process-wide status after a satisfied call.
set_global_status(g) == IF g = 0 THEN 1 ELSE g

\* check_exit_condition storing each call's result in condition_met.
check_exit_condition_resets(rts, g) ==
    LET r == _check_exit_condition(rts)
    IN  IF r.abort \/ rts.opt_exit_cond = NULL
        THEN [rts |-> r.rts, global |-> g, ret |-> FALSE, abort |-> r.abort]
        ELSE [rts    |-> [r.rts EXCEPT !.opt_exit_cond.condition_met = r.ret],
              global |-> IF r.ret THEN set_global_status(g) ELSE g,
              ret    |-> r.ret,
              abort  |-> FALSE]

\* check_exit_condition answering true once the condition was met, also to
\* a call that brings no new outcome.
check_exit_condition_sticky(rts, g) ==
    LET r == _check_exit_condition(rts)
    IN  IF r.abort \/ rts.opt_exit_cond = NULL
        THEN [rts |-> r.rts, global |-> g, ret |-> FALSE, abort |-> r.abort]
        ELSE IF ~r.ret /\ ~r.rts.opt_exit_cond.condition_met
        THEN [rts |-> r.rts, global |-> g, ret |-> FALSE, abort |-> FALSE]
        ELSE [rts    |-> [r.rts EXCEPT !.opt_exit_cond = set_condition_met(@)],
              global |-> set_global_status(g),
              ret    |-> TRUE,
              abort  |-> FALSE]

\* check_exit_condition: [rts, global, ret, abort].
check_exit_condition(rts, g) ==
    LET r == _check_exit_condition(rts)
    IN  IF ~r.ret
        THEN [rts |-> r.rts, global |-> g, ret |-> FALSE, abort |-> r.abort]
        ELSE [rts    |-> [r.rts EXCEPT !.opt_exit_cond = set_condition_met(@)],
              global |-> set_global_status(g),
              ret    |-> TRUE,
              abort  |-> FALSE]

(* -------------------------- exit status -------------------------------- *)

\* status & 0xfffffffe on a two's complement int: the low bit cleared.
and_fffffffe(status) == status - (status % 2)

\* exit_cond_status_update with the two translated codes swapped.
exit_cond_status_update_swapped(status, g) ==
    IF and_fffffffe(status) # 0
    THEN [exits |-> FALSE, code |-> status]
    ELSE IF g >= 0
    THEN [exits |-> TRUE, code |-> IF g # 0 THEN 1 ELSE 0]
    ELSE [exits |-> FALSE, code |-> status]

\* exit_cond_status_update: [exits, code]; exits when it calls _exit(code),
\* otherwise code is the value returned to the caller.
exit_cond_status_update(status, g) ==
    IF and_fffffffe(status) # 0
    THEN [exits |-> FALSE, code |-> status]
    ELSE IF g >= 0
    THEN [exits |-> TRUE, code |-> IF g # 0 THEN 0 ELSE 1]
    ELSE [exits |-> FALSE, code |-> status]

\* exit_cond_last_gasp: [exits, code]; when it returns, the exit in
\* progress goes on with the status it was given.
exit_cond_last_gasp(status, g) ==
    IF g < 0
    THEN [exits |-> FALSE, code |-> status]
    ELSE [exits |-> TRUE, code |-> exit_cond_status_update(status, g).code]

(* ------------------------------- parser -------------------------------- *)

\* The char at C index i of the string s; the index Len(s) holds the NUL.
At(s, i) == IF i < Len(s) THEN s[i + 1] ELSE NUL

isdigit(c) == c \in {"0", "1", "2", "3", "4", "5", "6", "7", "8", "9"}

\* c - '0' for a digit c.
DigitValue(c) ==
    CASE c = "0" -> 0 [] c = "1" -> 1 [] c = "2" -> 2 [] c = "3" -> 3
      [] c = "4" -> 4 [] c = "5" -> 5 [] c = "6" -> 6 [] c = "7" -> 7
      [] c = "8" -> 8 [] c = "9" -> 9

\* parse_error: error(2, ...) ends the process with this status.
PARSE_ERROR_STATUS == 2

\* The loop of parse_args for the option m, entered with pos the index
\* before the next one read: [cond, err]; err is "" or the error's message.
RECURSIVE parse_args_loop(_, _, _, _, _, _, _)
parse_args_loop(cond, args, start, end, pos0, phase, mapSize) ==
    LET pos == pos0 + 1
        c   == At(args, pos)
    IN  IF ~(pos < end)
        THEN [cond |-> cond, err |-> ""]
        ELSE IF phase = 1
        THEN IF isdigit(c)
             THEN parse_args_loop(cond, args, start, end, pos, 1,
                                  (mapSize * 10) + DigitValue(c))
             ELSE IF c # ":"
             THEN [cond |-> cond, err |-> "invalid character in args to option 'm'"]
             ELSE IF mapSize < 1 /\ pos > start
             THEN [cond |-> cond, err |-> "'m' arg map size must be >0"]
             ELSE parse_args_loop(cond, args, start, end, pos, 2, mapSize)
        ELSE IF (end - pos) # 2
             THEN [cond |-> cond, err |-> "expecting exactely 2 characters after ':'"]
             ELSE LET c1 == [cond EXCEPT
                               !.map_chars[EXIT_COND_MAP_CHAR_SUCCESS_IDX] = At(args, pos),
                               !.map_chars[EXIT_COND_MAP_CHAR_FAILED_IDX] = At(args, pos + 1)]
                      c2 == IF mapSize # 0 THEN [c1 EXCEPT !.max_map_size = mapSize]
                                           ELSE c1
                  IN  parse_args_loop(c2, args, start, end, pos + 1, 2, mapSize)

\* parse_args(cond, 'm', args, start, end): [cond, err].
parse_args(cond, args, start, end) ==
    IF start < 1
    THEN [cond |-> cond, err |-> ""]
    ELSE parse_args_loop(cond, args, start, end, start - 1, 1, 0)

\* The case 'x' without the arming of the process-wide status.
arm_global_status_skipped(g) == g

\* The case 'x' of parse_opt: the process-wide status armed, condition unmet.
arm_global_status(g) == 0

\* The n option requesting, without a modifier, the count of the outcomes
\* the condition counts.
n_option_flags_same_mode(cond, modifier) ==
    LET m == IF modifier = " "
             THEN (IF EXIT_COUNT_FAILED \in cond.flags THEN "-" ELSE "+")
             ELSE modifier
    IN  (IF m = "+" THEN {EXIT_REPORT_SUCCESS} ELSE {})
        \cup (IF m = "-" THEN {EXIT_REPORT_FAILURES} ELSE {})

\* The report flag the n option sets, by its modifier and the counting mode.
n_option_flags(cond, modifier) ==
    LET m == IF modifier = " "
             THEN (IF EXIT_COUNT_FAILED \in cond.flags THEN "+" ELSE "-")
             ELSE modifier
    IN  (IF m = "+" THEN {EXIT_REPORT_SUCCESS} ELSE {})
        \cup (IF m = "-" THEN {EXIT_REPORT_FAILURES} ELSE {})

\* The switch of parse_opt on a well-formed option: [cond, global, err].
parse_opt_switch(cond, g, arg, opt, modifier, argPos, pos) ==
    CASE opt = "x" ->
           [cond   |-> [cond EXCEPT !.flags = @ \cup {EXIT_COND_STATUS}],
            global |-> arm_global_status(g), err |-> ""]
      [] opt = "n" ->
           [cond   |-> [cond EXCEPT !.flags = @ \cup n_option_flags(cond, modifier)],
            global |-> g, err |-> ""]
      [] opt = "N" ->
           [cond   |-> [cond EXCEPT !.flags =
                          @ \cup {EXIT_REPORT_SUCCESS, EXIT_REPORT_FAILURES}],
            global |-> g, err |-> ""]
      [] opt = "m" ->
           LET c1 == [cond EXCEPT !.flags = @ \cup {EXIT_REPORT_MAP},
                                  !.max_map_size = EXIT_COND_DEFAULT_MAP_SIZE]
               r  == parse_args(c1, arg, argPos, pos)
           IN  IF r.err # ""
               THEN [cond |-> r.cond, global |-> g, err |-> r.err]
               ELSE [cond |-> extend_ping_map(r.cond), global |-> g, err |-> ""]
      [] opt = "c" ->
           [cond   |-> [cond EXCEPT !.flags = @ \cup {EXIT_REPORT_STATE}],
            global |-> g, err |-> ""]
      [] opt = "q" ->
           [cond   |-> [cond EXCEPT !.flags = @ \cup {EXIT_REPORT_SILENT}],
            global |-> g, err |-> ""]

\* parse_opt: [cond, global, pos, err]; pos is the index of the option's
\* last character.
parse_opt(cond, g, arg, pos0) ==
    LET first    == At(arg, pos0)
        hasMod   == first = "-" \/ first = "+"
        modifier == IF hasMod THEN first ELSE " "
        pos1     == IF hasMod THEN pos0 + 1 ELSE pos0
        opt      == At(arg, pos1)
        hasArgs  == At(arg, pos1 + 1) = "("
        argPos   == IF hasArgs THEN pos1 + 2 ELSE 0
        closers  == {j \in argPos..(Len(arg) - 1) : At(arg, j) = ")"}
        pos      == IF ~hasArgs THEN pos1
                    ELSE IF closers = {} THEN Len(arg) ELSE SetMin(closers)
        fail(msg) == [cond |-> cond, global |-> g, pos |-> pos, err |-> msg]
    IN  IF opt = NUL
        THEN fail("unexpected end of option string")
        ELSE IF opt \notin EXIT_COND_OPTIONS
        THEN fail("invalid option")
        ELSE IF modifier # " " /\ opt # "n"
        THEN fail("+/- modifiers only allowed for 'n' option")
        ELSE IF hasArgs /\ closers = {}
        THEN fail("unexpected end-of-string looking for ')'")
        ELSE IF argPos > 0 /\ opt # "m"
        THEN fail("option does not expect arguments")
        ELSE LET r == parse_opt_switch(cond, g, arg, opt, modifier, argPos, pos)
             IN  [cond |-> r.cond, global |-> r.global, pos |-> pos, err |-> r.err]

\* parse_exit_cond without the test of the expected count at its end.
expect_missing_never(cond) == FALSE

\* The test at the end of parse_exit_cond: no expected count was defined.
expect_missing(cond) == cond.expect < 1

\* The loop of parse_exit_cond, entered with pos the index before the next
\* one read: [cond, global, err]; cond is NULL when parsing failed.
RECURSIVE parse_exit_cond_loop(_, _, _, _, _)
parse_exit_cond_loop(opt, pos0, phase, cond, g) ==
    LET pos == pos0 + 1
        c   == At(opt, pos)
        fail(msg) == [cond |-> NULL, global |-> g, err |-> msg]
    IN  IF c = NUL
        THEN IF expect_missing(cond)
             THEN fail("exit condition must define an expected count different from zero")
             ELSE [cond |-> cond, global |-> g, err |-> ""]
        ELSE IF phase = 1 /\ pos = 0 /\ c = "-"
        THEN parse_exit_cond_loop(opt, pos, 1,
                 [cond EXCEPT !.flags = @ \cup {EXIT_COUNT_FAILED}], g)
        ELSE IF phase = 1 /\ isdigit(c)
        THEN parse_exit_cond_loop(opt, pos, 1,
                 [cond EXCEPT !.expect = (@ * 10) + DigitValue(c)], g)
        ELSE IF phase = 1 /\ pos = 0
        THEN fail("unexpected character at start")
        ELSE IF phase \in {1, 2}
        THEN IF c = ":"
             THEN parse_exit_cond_loop(opt, pos, 3, cond, g)
             ELSE IF cond.flags \cap EXIT_COND_LOC_FLAGS # {}
             THEN fail("repeat loc flag")
             ELSE IF c = "s"
             THEN parse_exit_cond_loop(opt, pos, 2,
                      [cond EXCEPT !.flags = @ \cup {EXIT_SEQUENCE}], g)
             ELSE fail("expect ':'")
        ELSE LET r == parse_opt(cond, g, opt, pos)
             IN  IF r.err # ""
                 THEN [cond |-> NULL, global |-> r.global, err |-> r.err]
                 ELSE parse_exit_cond_loop(opt, r.pos, 3, r.cond, r.global)

\* parse_exit_cond: [cond, global, err].
parse_exit_cond(opt, g) == parse_exit_cond_loop(opt, -1, 1, INIT_EXIT_CONDITION, g)

(* ---------------------------- option strings --------------------------- *)

DigitChar(d) ==
    CASE d = 0 -> "0" [] d = 1 -> "1" [] d = 2 -> "2" [] d = 3 -> "3"
      [] d = 4 -> "4" [] d = 5 -> "5" [] d = 6 -> "6" [] d = 7 -> "7"
      [] d = 8 -> "8" [] d = 9 -> "9"

\* The decimal numeral of n, 0 <= n < 100.
Numeral(n) ==
    IF n < 10 THEN <<DigitChar(n)>> ELSE <<DigitChar(n \div 10), DigitChar(n % 10)>>

\* What follows <count><loc> in the option strings of Spec: nothing, option
\* lists, and lists the parser rejects.
OptionTails ==
    { <<>>,
      <<":", "x">>,
      <<":", "x", "N">>,
      <<":", "c", "x", "n">>,
      <<":", "m", "(", "2", ":", "+", "-", ")">>,
      <<":", "x", "m", "(", "3", ":", "a", "b", ")", "q">>,
      <<":", "z">>,
      <<":", "x", "m", "(", "3", ":", "a", ")">> }

\* The -x values of Spec: [-]<count>[s][:<opt>...], count 0..MaxExpect.
OptStrings ==
    { sign \o Numeral(n) \o loc \o tail :
        sign \in {<<>>, <<"-">>}, n \in 0..MaxExpect,
        loc \in {<<>>, <<"s">>}, tail \in OptionTails }

\* The -x values of SpecMap: maps of 2, 5, 100 (the default) and 1026 slots.
MapOptStrings ==
    { <<"9", ":", "m", "(", "2", ":", "+", "-", ")">>,
      <<"9", ":", "m", "(", "5", ":", "a", "b", ")">>,
      <<"9", ":", "m">>,
      <<"9", ":", "m", "(", "1", "0", "2", "6", ":", "+", "-", ")">> }

\* The <count> texts of SpecParse: none, zero, one digit, a leading zero,
\* two digits.
ParseCounts == { <<>>, <<"0">>, <<"2">>, <<"0", "3">>, <<"1", "0">> }

\* The <count><loc> prefixes of SpecParse, with and without '-' and 's'.
ParseHeads ==
    { sign \o count \o loc :
        sign \in {<<>>, <<"-">>}, count \in ParseCounts, loc \in {<<>>, <<"s">>} }

\* The map sizes written in the option strings of SpecParse.
MapSizes == {2, 3, 12}

\* The option m with the argument list body in parentheses.
MArg(body) == <<"m", "(">> \o body \o <<")">>

\* Argument lists of m after the syntax m(<n>[:<s><f>]): a size, a size
\* and two glyphs, and two glyphs alone.
MapArgBodies ==
    { Numeral(n) : n \in MapSizes }
    \cup { Numeral(n) \o <<":", "a", "b">> : n \in MapSizes }
    \cup { <<":", "a", "b">> }

\* Argument lists of m off that syntax: empty, nothing or one or three
\* characters after ':', a zero size, and characters that are no digits.
BadMapArgBodies ==
    { <<>>, <<"3", ":">>, <<"3", ":", "a">>, <<"3", ":", "a", "b", "c">>,
      <<"0", ":", "a", "b">>, <<"3", "x", ":", "a", "b">>, <<"x">>,
      <<":">>, <<":", "a">> }

\* Option lists with the option m more than once.
RepeatedMapOptions ==
    { MArg(<<"3", ":", "a", "b">>) \o MArg(<<"2", ":", "c", "d">>),
      MArg(<<"2", ":", "a", "b">>) \o MArg(<<"3", ":", "c", "d">>),
      MArg(<<"3", ":", "a", "b">>) \o <<"m">>,
      <<"m">> \o MArg(<<"3", ":", "a", "b">>),
      MArg(<<"2", ":", "a", "b">>) \o MArg(<<"4">>) }

\* Option lists without m, and lists the parser rejects for another reason
\* than the arguments of m.
PlainOptions ==
    { <<"x">>, <<"n">>, <<"+", "n">>, <<"-", "n">>, <<"N">>, <<"c">>, <<"q">>,
      <<"m">>, <<"+", "n", "-", "n">>, <<"x", "c", "n", "q">>,
      <<"z">>, <<"+", "x">>, <<"c", "(", "3", ")">>,
      <<"m", "(", "3", ":", "a", "b">> }

\* The option m with a size above EXIT_COND_MAX_INITIAL_MAP_SIZE.
LargeMapOption == MArg(<<"6", "0", "0", ":", "a", "b">>)

\* What follows <count><loc> in the option strings of SpecParse.
ParseTails ==
    { <<>>, <<":">> }
    \cup { <<":">> \o o : o \in PlainOptions }
    \cup { <<":">> \o MArg(b) : b \in MapArgBodies \cup BadMapArgBodies }
    \cup { <<":">> \o o : o \in RepeatedMapOptions }
    \cup { <<":">> \o LargeMapOption }

\* The -x values of SpecParse.
ParseOptStrings == { head \o tail : head \in ParseHeads, tail \in ParseTails }

\* The -x values of SpecTotals: both counts, one count by each form of n,
\* and counts beside the state and the map.
TotalsOptStrings ==
    { <<"2", ":", "N">>,
      <<"-", "2", "s", ":", "c", "N", "q">>,
      <<"2", ":", "n">>,
      <<"-", "2", ":", "n">>,
      <<"2", "s", ":", "c", "+", "n">> \o MArg(<<"2", ":", "a", "b">>),
      <<"2", ":", "x">> }

\* The statuses the tool ends with: ok, generic failure, and fatal ones.
ExitStatuses == {0, 1, 2, 3, 255, -1}

(* ------------------------------- report -------------------------------- *)

\* The option fragments of the report strings, in the order they are
\* written: state, success count, failure count, a map of 2 slots, silent.
ReportOptions ==
    << <<"c">>, <<"+", "n">>, <<"-", "n">>,
       <<"m", "(", "2", ":", "a", "b", ")">>, <<"q">> >>

\* The fragments picked by the set S of indexes from k on, concatenated.
RECURSIVE PickOptions(_, _)
PickOptions(S, k) ==
    IF k > Len(ReportOptions) THEN <<>>
    ELSE (IF k \in S THEN ReportOptions[k] ELSE <<>>) \o PickOptions(S, k + 1)

\* The -x values of SpecReport: every subset of the report options.
ReportOptStrings ==
    { <<"2">> \o (IF S = {} THEN <<>> ELSE <<":">>) \o PickOptions(S, 1) :
        S \in SUBSET (1..Len(ReportOptions)) }

\* The label printf writes before the fields.
REPORT_LABEL ==
    <<"e", "x", "i", "t", " ", "c", "o", "n", "d", "i", "t", "i", "o", "n", " ",
      "r", "e", "p", "o", "r", "t", ":">>

\* The digits of n >= 0 in base ten.
RECURSIVE DecimalDigits(_)
DecimalDigits(n) ==
    IF n < 10 THEN <<DigitChar(n)>>
    ELSE Append(DecimalDigits(n \div 10), DigitChar(n % 10))

\* vprintf(fmt, ap) for the two formats report is called with.
vprintf(fmt, arg) ==
    CASE fmt = <<"%", "c">> -> <<arg>>
      [] fmt = <<"%", "d">> -> IF arg < 0 THEN <<"-">> \o DecimalDigits(0 - arg)
                                         ELSE DecimalDigits(arg)

\* report without the reset of _app on the first field.
report_no_reset(cond, app, first, display, fmt, arg) ==
    IF ~display
    THEN [cond |-> cond, app |-> app, out |-> <<>>]
    ELSE LET sep == IF app THEN <<"/">> ELSE <<>>
             r   == IF fmt = NULL THEN print_ping_map(cond)
                    ELSE [cond |-> cond, out |-> vprintf(fmt, arg)]
         IN  [cond |-> r.cond, app |-> TRUE, out |-> sep \o r.out]

\* report(cond, first, display, fmt, ...): [cond, app, out]; app is the
\* static _app before and after, the format NULL stands for the map.
report(cond, app, first, display, fmt, arg) ==
    LET app1 == IF first THEN FALSE ELSE app
    IN  IF ~display
        THEN [cond |-> cond, app |-> app1, out |-> <<>>]
        ELSE LET sep == IF app1 THEN <<"/">> ELSE <<>>
                 r   == IF fmt = NULL THEN print_ping_map(cond)
                        ELSE [cond |-> cond, out |-> vprintf(fmt, arg)]
             IN  [cond |-> r.cond, app |-> TRUE, out |-> sep \o r.out]

\* The test of the label: (cond->flags && EXIT_REPORT_SILENT) == 0, with
\* the logical && of the source.
label_wanted(flags) == ~(flags # {} /\ EXIT_REPORT_SILENT # 0)

\* print_exit_cond_report(rts, force): [rts, app, out]; out is empty when
\* the function returns before it writes.
print_exit_cond_report(rts, app, force) ==
    LET cond == rts.opt_exit_cond
        none == [rts |-> rts, app |-> app, out |-> <<>>]
    IN  IF cond = NULL
        THEN none
        ELSE IF ~force /\ (cond.flags \cap EXIT_REPORT_FLAGS) = {}
        THEN none
        ELSE LET label == IF label_wanted(cond.flags) THEN REPORT_LABEL ELSE <<>>
                 r1 == report(cond, app, TRUE, EXIT_REPORT_STATE \in cond.flags,
                              <<"%", "c">>, IF cond.condition_met THEN "T" ELSE "F")
                 r2 == report(r1.cond, r1.app, FALSE,
                              EXIT_REPORT_SUCCESS \in cond.flags,
                              <<"%", "d">>, get_exit_cond_success(r1.cond))
                 r3 == report(r2.cond, r2.app, FALSE,
                              EXIT_REPORT_FAILURES \in cond.flags,
                              <<"%", "d">>, get_exit_cond_failures(r2.cond))
                 r4 == report(r3.cond, r3.app, FALSE,
                              EXIT_REPORT_MAP \in cond.flags, NULL, 0)
             IN  [ rts |-> [rts EXCEPT !.opt_exit_cond = r4.cond],
                   app |-> r4.app,
                   out |-> label \o r1.out \o r2.out \o r3.out \o r4.out
                                 \o <<"\n">> ]

(* ------------------------------- state --------------------------------- *)

VARIABLES
    pc,        \* "start", "run", "parse_error", "abort" or "exited"
    opt,       \* the value of the -x option
    rts,       \* struct ping_rts: ntransmitted, nreceived, opt_exit_cond
    global_exit_cond_status,
    last,      \* the operation of the last step
    ret,       \* what the last check_exit_condition returned
    delta,     \* <<nsuccess, nfailure>> of the last check_exit_condition
    emitted,   \* what the last step wrote to stdout
    status,    \* the tool's own exit status, once pc is "exited"
    exit_code, \* the process exit code, once pc is "exited" or "parse_error"
    hist,      \* the outcomes of the probes evaluated so far, oldest first
    firstSat,  \* the probe at which a call first returned true, or 0
    _app,      \* the static _app of report: a field was already written
    reports    \* the number of calls of print_exit_cond_report so far

vars == <<pc, opt, rts, global_exit_cond_status, last, ret, delta, emitted,
          status, exit_code, hist, firstSat, _app, reports>>

cond == rts.opt_exit_cond

InitWith(strings) ==
    /\ pc = "start"
    /\ opt \in strings
    /\ rts = [ntransmitted |-> 0, nreceived |-> 0, opt_exit_cond |-> NULL]
    /\ global_exit_cond_status = -1
    /\ last = "none"
    /\ ret = FALSE
    /\ delta = <<0, 0>>
    /\ emitted = <<>>
    /\ status = 0
    /\ exit_code = 0
    /\ hist = <<>>
    /\ firstSat = 0
    /\ _app = FALSE
    /\ reports = 0

Init == InitWith(OptStrings)

\* The option parsing of the tool: parse_exit_cond on the -x value.
ParseExitCond ==
    /\ pc = "start"
    /\ LET r == parse_exit_cond(opt, global_exit_cond_status)
       IN  /\ rts' = [rts EXCEPT !.opt_exit_cond = r.cond]
           /\ global_exit_cond_status' = r.global
           /\ pc' = IF r.err = "" THEN "run" ELSE "parse_error"
           /\ exit_code' = IF r.err = "" THEN exit_code ELSE PARSE_ERROR_STATUS
    /\ last' = "parse"
    /\ emitted' = <<>>
    /\ UNCHANGED <<opt, ret, delta, status, hist, firstSat, _app, reports>>

\* The probe loop advances its totals by dt transmitted and dr received
\* and calls check_exit_condition.
CheckExitCondition(dt, dr, limit) ==
    /\ pc = "run"
    /\ rts.ntransmitted + dt <= limit
    /\ rts.nreceived + dr <= limit
    /\ LET rts1 == [rts EXCEPT !.ntransmitted = @ + dt, !.nreceived = @ + dr]
           r    == check_exit_condition(rts1, global_exit_cond_status)
           new  == ~r.abort /\ <<dt, dr>> # <<0, 0>>
       IN  /\ rts' = r.rts
           /\ global_exit_cond_status' = r.global
           /\ ret' = r.ret
           /\ delta' = <<nsuccess_of(rts1), nfailure_of(rts1)>>
           /\ pc' = IF r.abort THEN "abort" ELSE "run"
           /\ hist' = IF new THEN Append(hist, dr >= 1) ELSE hist
           /\ firstSat' = IF firstSat = 0 /\ r.ret THEN Len(hist) + 1 ELSE firstSat
    /\ last' = "check"
    /\ emitted' = <<>>
    /\ UNCHANGED <<opt, status, exit_code, _app, reports>>

\* The report renders the map: print_ping_map(cond, FALSE).
Render ==
    /\ pc = "run"
    /\ EXIT_REPORT_MAP \in cond.flags
    /\ LET r == print_ping_map(cond)
       IN  /\ rts' = [rts EXCEPT !.opt_exit_cond = r.cond]
           /\ emitted' = r.out
    /\ last' = "render"
    /\ UNCHANGED <<pc, opt, global_exit_cond_status, ret, delta, status,
                   exit_code, hist, firstSat, _app, reports>>

\* The tool ends through exit_cond_status_update(status).
ExitCondStatusUpdate(st) ==
    /\ pc = "run"
    /\ status' = st
    /\ exit_code' = exit_cond_status_update(st, global_exit_cond_status).code
    /\ pc' = "exited"
    /\ last' = "status_update"
    /\ emitted' = <<>>
    /\ UNCHANGED <<opt, rts, global_exit_cond_status, ret, delta, hist, firstSat,
                   _app, reports>>

\* The tool calls exit(status) and the exit hook exit_cond_last_gasp runs.
ExitCondLastGasp(st) ==
    /\ pc = "run"
    /\ status' = st
    /\ exit_code' = exit_cond_last_gasp(st, global_exit_cond_status).code
    /\ pc' = "exited"
    /\ last' = "last_gasp"
    /\ emitted' = <<>>
    /\ UNCHANGED <<opt, rts, global_exit_cond_status, ret, delta, hist, firstSat,
                   _app, reports>>

\* The tool prints the report: print_exit_cond_report(rts, force).
PrintExitCondReport(force) ==
    /\ pc = "run"
    /\ reports < MaxReports
    /\ LET r == print_exit_cond_report(rts, _app, force)
       IN  /\ rts' = r.rts
           /\ _app' = r.app
           /\ emitted' = r.out
    /\ reports' = reports + 1
    /\ last' = "report"
    /\ UNCHANGED <<pc, opt, global_exit_cond_status, ret, delta, status,
                   exit_code, hist, firstSat>>

\* The advances of a probe loop that completes one probe per call, or none.
OneProbeAdvances == {<<0, 0>>, <<1, 0>>, <<1, 1>>}

Next ==
    \/ ParseExitCond
    \/ \E d \in OneProbeAdvances : CheckExitCondition(d[1], d[2], MaxProbes)
    \/ Render
    \/ \E st \in ExitStatuses : ExitCondStatusUpdate(st)
    \/ \E st \in ExitStatuses : ExitCondLastGasp(st)

Spec == Init /\ [][Next]_vars

\* The advances of a probe loop that may break the one-probe-per-call
\* contract: several probes sent or answered between two calls, or an
\* answer (a duplicate) with no probe sent.
AnyAdvances == {<<dt, dr>> : dt \in 0..3, dr \in 0..2}

\* The -x values of SpecCaller.
CallerOptStrings ==
    { <<"1">>,
      <<"2", "s", ":", "x">>,
      <<"-", "2", ":", "m", "(", "2", ":", "+", "-", ")">> }

InitCaller == InitWith(CallerOptStrings)

NextCaller ==
    \/ ParseExitCond
    \/ \E d \in AnyAdvances : CheckExitCondition(d[1], d[2], MaxCallerTotal)
    \/ Render

SpecCaller == InitCaller /\ [][NextCaller]_vars

\* A probe of a loop whose outcomes repeat with period ScriptLen: the first
\* ScriptLen outcomes are free, each later one repeats the one ScriptLen
\* probes before it.
ScriptedProbe(success) ==
    /\ Len(hist) >= ScriptLen => success = hist[Len(hist) + 1 - ScriptLen]
    /\ CheckExitCondition(1, IF success THEN 1 ELSE 0, MaxMapProbes)

InitMap == InitWith(MapOptStrings)

NextMap ==
    \/ ParseExitCond
    \/ \E success \in BOOLEAN : ScriptedProbe(success)
    \/ Render

SpecMap == InitMap /\ [][NextMap]_vars

\* The parser specification: well-formed and malformed option strings,
\* then up to MaxParseProbes probes and renders of the map.
InitParse == InitWith(ParseOptStrings)

NextParse ==
    \/ ParseExitCond
    \/ \E d \in OneProbeAdvances : CheckExitCondition(d[1], d[2], MaxParseProbes)
    \/ Render

SpecParse == InitParse /\ [][NextParse]_vars

\* A call of a loop whose outcomes repeat with period ScriptLen, up to
\* limit probes: a call without a new outcome, or one with the outcome
\* the script gives.
ScriptedCall(d, limit) ==
    /\ (d # <<0, 0>> /\ Len(hist) >= ScriptLen) =>
           (d[2] = 1) = hist[Len(hist) + 1 - ScriptLen]
    /\ CheckExitCondition(d[1], d[2], limit)

\* The totals specification: up to MaxTotalProbes scripted probes, calls
\* without a new outcome, and reports.
InitTotals == InitWith(TotalsOptStrings)

NextTotals ==
    \/ ParseExitCond
    \/ \E d \in OneProbeAdvances : ScriptedCall(d, MaxTotalProbes)
    \/ \E force \in BOOLEAN : PrintExitCondReport(force)

SpecTotals == InitTotals /\ [][NextTotals]_vars

\* The report specification: every subset of the report options, up to
\* MaxReportProbes probes, and up to MaxReports reports, forced or not.
InitReport == InitWith(ReportOptStrings)

NextReport ==
    \/ ParseExitCond
    \/ \E d \in OneProbeAdvances : CheckExitCondition(d[1], d[2], MaxReportProbes)
    \/ \E force \in BOOLEAN : PrintExitCondReport(force)

SpecReport == InitReport /\ [][NextReport]_vars

(* ------------------------------ properties ----------------------------- *)

SetMax(S) == CHOOSE i \in S : \A j \in S : i >= j

\* Whether an outcome is of the kind the condition counts.
IsTarget(c, success) == IF EXIT_COUNT_FAILED \in c.flags THEN ~success ELSE success

\* The targeted outcomes in a history, counted from scratch.
TargetCount(c, h) == Cardinality({i \in 1..Len(h) : IsTarget(c, h[i])})

SuccessCount(h) == Cardinality({i \in 1..Len(h) : h[i]})

\* The length of the run of targeted outcomes that ends a history.
TrailingRun(c, h) ==
    SetMax({k \in 0..Len(h) : \A j \in (Len(h) - k + 1)..Len(h) : IsTarget(c, h[j])})

\* The probe that completes the first run of expect targeted outcomes, or 0.
FirstRunEnd(c, h) ==
    LET ends == {i \in c.expect..Len(h) :
                   \A j \in (i - c.expect + 1)..i : IsTarget(c, h[j])}
    IN  IF ends = {} THEN 0 ELSE SetMin(ends)

\* The glyph an outcome is recorded as.
Glyph(c, success) ==
    c.map_chars[IF success THEN EXIT_COND_MAP_CHAR_SUCCESS_IDX
                           ELSE EXIT_COND_MAP_CHAR_FAILED_IDX]

\* The glyphs of the last min(Len(h), max_map_size) outcomes, oldest first.
LastGlyphs(c, h) ==
    LET n == Len(h)
        k == IF n <= c.max_map_size THEN n ELSE c.max_map_size
    IN  [i \in 1..k |-> Glyph(c, h[n - k + i])]

\* The last step was a call that evaluated one new outcome.
NewOutcomeCall == last = "check" /\ delta \in {<<1, 0>>, <<0, 1>>}

\* C1: once condition_met is true it is true in every later state: no step
\* of the subsystem takes it from true to false.
C1_ConditionMetMonotonic ==
    [][(pc = "run" /\ cond.condition_met) => cond'.condition_met]_vars

\* C1 witness: a call evaluated a new outcome and was not satisfied while
\* the condition had been met before.
C1_Witness ==
    /\ pc = "run"
    /\ NewOutcomeCall
    /\ ~ret
    /\ cond.condition_met

\* C2: in CUMULATIVE mode a call that evaluates a new outcome returns true
\* iff the targeted outcomes of the whole history are at least expect, and
\* the stored totals agree with a recount of the history.
C2_CumulativeMatchesRecount ==
    (pc = "run" /\ EXIT_SEQUENCE \notin cond.flags) =>
        /\ cond.ntransmitted = Len(hist)
        /\ cond.nreceived = SuccessCount(hist)
        /\ NewOutcomeCall => (ret <=> TargetCount(cond, hist) >= cond.expect)

\* C2 witness: a satisfied CUMULATIVE call whose history holds an outcome
\* of the other kind between the counted ones.
C2_Witness ==
    /\ pc = "run"
    /\ EXIT_SEQUENCE \notin cond.flags
    /\ NewOutcomeCall
    /\ ret
    /\ cond.expect = 2
    /\ hist = <<TRUE, FALSE, TRUE>>

\* C3: in SEQUENCE mode the streak is the length of the run of targeted
\* outcomes ending the history, a call that evaluates a new outcome returns
\* true iff that run has length expect, and the first call that returned
\* true is the one that completed the first run of expect targeted outcomes.
C3_SequenceStreak ==
    (pc = "run" /\ EXIT_SEQUENCE \in cond.flags) =>
        /\ cond.sequence = TrailingRun(cond, hist)
        /\ NewOutcomeCall => (ret <=> TrailingRun(cond, hist) = cond.expect)
        /\ firstSat = FirstRunEnd(cond, hist)

\* C3 witness: a satisfied SEQUENCE call after a streak was reset.
C3_Witness ==
    /\ pc = "run"
    /\ EXIT_SEQUENCE \in cond.flags
    /\ NewOutcomeCall
    /\ ret
    /\ cond.expect = 2
    /\ hist = <<TRUE, FALSE, TRUE, TRUE>>

\* The process-wide status: disabled, armed and unmet, armed and met.
Disabled == global_exit_cond_status = -1
ArmedUnmet == global_exit_cond_status = 0
ArmedMet == global_exit_cond_status = 1

\* C4: the final exit code is 0 when the status is armed-met and the tool's
\* code is 0 or 1, 1 when it is armed-unmet and the tool's code is 0 or 1,
\* and the tool's code otherwise.
C4_ExitCodeMapping ==
    pc = "exited" =>
        /\ Disabled \/ ArmedUnmet \/ ArmedMet
        /\ (ArmedMet /\ status \in {0, 1}) => exit_code = 0
        /\ (ArmedUnmet /\ status \in {0, 1}) => exit_code = 1
        /\ (Disabled \/ status \notin {0, 1}) => exit_code = status

\* C4 witness: the tool ended with the generic failure code while the
\* status was armed-met, through the exit hook.
C4_Witness ==
    /\ pc = "exited"
    /\ last = "last_gasp"
    /\ ArmedMet
    /\ status = 1
    /\ exit_code = 0

Opt2xN == <<"2", ":", "x", "N">>

\* C5: with the x option parsed, a tool that ends with code 0 or 1 exits
\* with 0 iff some call returned true before, and with 1 otherwise; with
\* "2:xN" and the outcomes success, failure, success the third call is the
\* first to return true.
C5_ExitReflectsCondition ==
    /\ (pc = "exited" /\ EXIT_COND_STATUS \in cond.flags /\ status \in {0, 1}) =>
           /\ exit_code = (IF firstSat # 0 THEN 0 ELSE 1)
    /\ (pc \in {"run", "exited"} /\ opt = Opt2xN /\ Len(hist) >= 3
          /\ SubSeq(hist, 1, 3) = <<TRUE, FALSE, TRUE>>) => firstSat = 3

\* C5 witness: "2:xN" fed success, failure, success, ended with the tool's
\* failure code, exits 0.
C5_Witness ==
    /\ pc = "exited"
    /\ opt = Opt2xN
    /\ hist = <<TRUE, FALSE, TRUE>>
    /\ status = 1
    /\ exit_code = 0

\* C6: after n >= 1 recorded outcomes a render emits the glyphs of the last
\* min(n, max_map_size) outcomes, oldest first.
C6_RenderLastOutcomes ==
    (pc = "run" /\ last = "render" /\ Len(hist) >= 1) =>
        emitted = LastGlyphs(cond, hist)

\* C6 witness: a render of a map of 1026 slots that grew twice and wrapped,
\* holding glyphs of both kinds.
C6_Witness ==
    /\ pc = "run"
    /\ last = "render"
    /\ cond.max_map_size = 1026
    /\ cond.map_size = 1026
    /\ Len(hist) = 1028
    /\ Len(emitted) = 1026
    /\ emitted[1] # emitted[2]

\* The C indexes of the map that hold a recorded glyph.
StoredSlots(c) ==
    IF Byte(c.ping_map, c.map_size - 1) # NUL
    THEN 0..(c.map_size - 1)
    ELSE 0..(c.mapper_pos - 1)

\* C7: a render leaves mapper_pos, map_size, max_map_size, the wrap marker
\* and every stored glyph as they were, a second render emits the same
\* text, and the text is the one the recorded outcomes alone determine.
C7_RenderNonDestructive ==
    [][(pc = "run" /\ last' = "render") =>
          /\ cond'.mapper_pos = cond.mapper_pos
          /\ cond'.map_size = cond.map_size
          /\ cond'.max_map_size = cond.max_map_size
          /\ StoredSlots(cond') = StoredSlots(cond)
          /\ \A i \in StoredSlots(cond) :
                 Byte(cond'.ping_map, i) = Byte(cond.ping_map, i)
          /\ print_ping_map(cond').out = emitted'
          /\ emitted' = LastGlyphs(cond, hist)]_vars

\* C7 witness: a render of a wrapped map whose write position is inside
\* the block, so that a glyph was under the temporary terminator.
C7_Witness ==
    /\ pc = "run"
    /\ last = "render"
    /\ Byte(cond.ping_map, cond.map_size - 1) # NUL
    /\ cond.mapper_pos < cond.map_size
    /\ Len(emitted) = cond.map_size

\* C8: a call whose advance is neither (0,0) nor (1,0) nor (0,1) fails the
\* assertion and is not counted as one outcome.
C8_BadAdvanceAborts ==
    (last = "check" /\ delta \notin {<<0, 0>>, <<1, 0>>, <<0, 1>>}) => pc = "abort"

\* C9: a call that finds the caller's totals equal to the stored ones
\* returns false and changes neither the descriptor (totals, streak,
\* condition_met, map) nor the process-wide status.
C9_ZeroDeltaNoOp ==
    [][(pc = "run" /\ last' = "check" /\ delta' = <<0, 0>>) =>
          /\ pc' = "run"
          /\ ret' = FALSE
          /\ rts' = rts
          /\ global_exit_cond_status' = global_exit_cond_status]_vars

\* C9 witness: a call with no new outcome on a descriptor whose condition
\* is met, whose status is armed-met and whose map holds glyphs.
C9_Witness ==
    /\ pc = "run"
    /\ last = "check"
    /\ delta = <<0, 0>>
    /\ cond.condition_met
    /\ ArmedMet
    /\ EXIT_REPORT_MAP \in cond.flags
    /\ cond.mapper_pos > 0

\* C10 as stated: a call that evaluates a new outcome returns true iff
\* condition_met is true after it.
C10_ReturnTracksMet ==
    (pc = "run" /\ NewOutcomeCall) => (ret <=> cond.condition_met)

\* C10 amended: a call that evaluates a new outcome and returns true leaves
\* condition_met true; in CUMULATIVE mode it returns true iff condition_met
\* is true after it, in SEQUENCE mode iff the streak equals expect.
C10_ReturnImpliesMet ==
    (pc = "run" /\ NewOutcomeCall) =>
        /\ ret => cond.condition_met
        /\ EXIT_SEQUENCE \notin cond.flags => (ret <=> cond.condition_met)
        /\ EXIT_SEQUENCE \in cond.flags => (ret <=> cond.sequence = cond.expect)

\* C10 witness: a CUMULATIVE call that returns true after an earlier call
\* had already met the condition.
C10_Witness ==
    /\ pc = "run"
    /\ NewOutcomeCall
    /\ EXIT_SEQUENCE \notin cond.flags
    /\ ret
    /\ firstSat # 0
    /\ firstSat < Len(hist)

\* The fields a report is asked for, in the order state, success count,
\* failure count, map, each with the text the history h determines.
RequestedFields(c, h) ==
    (IF EXIT_REPORT_STATE \in c.flags
       THEN << <<IF firstSat # 0 THEN "T" ELSE "F">> >> ELSE <<>>)
    \o (IF EXIT_REPORT_SUCCESS \in c.flags
          THEN <<DecimalDigits(SuccessCount(h))>> ELSE <<>>)
    \o (IF EXIT_REPORT_FAILURES \in c.flags
          THEN <<DecimalDigits(Len(h) - SuccessCount(h))>> ELSE <<>>)
    \o (IF EXIT_REPORT_MAP \in c.flags THEN <<LastGlyphs(c, h)>> ELSE <<>>)

\* The fields fs with one '/' between each two consecutive ones.
RECURSIVE Join(_)
Join(fs) ==
    IF fs = <<>> THEN <<>>
    ELSE IF Len(fs) = 1 THEN fs[1]
    ELSE fs[1] \o <<"/">> \o Join(Tail(fs))

\* The last step was a report that wrote something.
ReportWritten == pc = "run" /\ last = "report" /\ emitted # <<>>

\* C11 as stated: a report is the requested fields in the fixed order, one
\* '/' between consecutive ones, one line terminator at the end, and the
\* line neither starts nor ends with '/'.
C11_NoEdgeSeparator ==
    ReportWritten =>
        /\ \E prefix \in {<<>>, REPORT_LABEL} :
               emitted = prefix \o Join(RequestedFields(cond, hist)) \o <<"\n">>
        /\ emitted[1] # "/"
        /\ Len(emitted) >= 2 => emitted[Len(emitted) - 1] # "/"

\* C11 amended: a report that writes is, after the label if any, the
\* requested fields in the order state, success, failure, map with one '/'
\* between consecutive ones and one line terminator at the end, also when
\* printed again; no '/' leads the line, and one ends it exactly when the
\* map is requested after another field and holds no outcome yet. A call
\* not forced with no field requested writes nothing.
C11_FieldsJoined ==
    (pc = "run" /\ last = "report") =>
        /\ ReportWritten =>
             /\ \E prefix \in {<<>>, REPORT_LABEL} :
                   emitted = prefix \o Join(RequestedFields(cond, hist)) \o <<"\n">>
             /\ emitted[1] # "/"
             /\ (Len(emitted) >= 2 /\ emitted[Len(emitted) - 1] = "/") <=>
                   /\ EXIT_REPORT_MAP \in cond.flags
                   /\ Len(RequestedFields(cond, hist)) >= 2
                   /\ hist = <<>>
        /\ ~ReportWritten => (cond.flags \cap EXIT_REPORT_FLAGS) = {}

\* C11 witness: the second report of a descriptor asked for all four
\* fields, after three probes that wrapped the map of 2 slots.
C11_Witness ==
    /\ pc = "run"
    /\ last = "report"
    /\ reports = 2
    /\ EXIT_REPORT_FLAGS \subseteq cond.flags
    /\ hist = <<TRUE, TRUE, FALSE>>
    /\ emitted = <<"T", "/", "2", "/", "1", "/", "a", "b", "\n">>

\* The text starts with the label.
Labelled(text) ==
    /\ Len(text) >= Len(REPORT_LABEL)
    /\ SubSeq(text, 1, Len(REPORT_LABEL)) = REPORT_LABEL

\* C12: a report of a descriptor with at least one report field requested
\* starts with the label "exit condition report:" iff q was not requested.
C12_LabelIffNotSilent ==
    (pc = "run" /\ last = "report" /\ (cond.flags \cap EXIT_REPORT_FLAGS) # {}) =>
        (Labelled(emitted) <=> EXIT_REPORT_SILENT \notin cond.flags)

\* The option strings with the single option m(<n>) or m(<n>:ab).
SizedMapStrings(n) ==
    { head \o <<":">> \o MArg(Numeral(n) \o glyphs) :
        head \in ParseHeads, glyphs \in {<<>>, <<":", "a", "b">>} }

\* The smaller of two numbers.
Min(a, b) == IF a <= b THEN a ELSE b

\* C13: after an accepted string with the single option m(<size>) or
\* m(<size>:<2 glyphs>), max_map_size is <size> and a render emits the
\* last <size> outcomes at most; after the option m without a size
\* max_map_size is the default 100.
C13_SizeSetsMaxCapacity ==
    pc = "run" =>
        /\ \A n \in MapSizes :
               opt \in SizedMapStrings(n) =>
                   /\ cond.max_map_size = n
                   /\ last = "render" => Len(emitted) = Min(Len(hist), n)
        /\ opt \in { head \o <<":", "m">> : head \in ParseHeads } =>
               cond.max_map_size = EXIT_COND_DEFAULT_MAP_SIZE

\* The option strings with the single option m(<n>:ab) or m(:ab).
GlyphedMapStrings ==
    { head \o <<":">> \o MArg(size \o <<":", "a", "b">>) :
        head \in ParseHeads, size \in {<<>>} \cup {Numeral(n) : n \in MapSizes} }

\* The descriptor holds s as the success glyph and f as the failure glyph,
\* the last new outcome was recorded as such, and a render shows the
\* recorded outcomes as such.
RecordedAs(s, f) ==
    /\ cond.map_chars[EXIT_COND_MAP_CHAR_SUCCESS_IDX] = s
    /\ cond.map_chars[EXIT_COND_MAP_CHAR_FAILED_IDX] = f
    /\ NewOutcomeCall =>
           Byte(cond.ping_map, cond.mapper_pos - 1) = IF hist[Len(hist)] THEN s ELSE f
    /\ last = "render" =>
           LET n == Len(hist)
               k == Min(n, cond.max_map_size)
           IN  emitted = [i \in 1..k |-> IF hist[n - k + i] THEN s ELSE f]

\* C14 as stated: after m(<size>:<c1><c2>) or m(:<c1><c2>) a failed probe
\* is recorded as c1 and a successful probe as c2.
C14_FailureGlyphFirst ==
    (pc = "run" /\ opt \in GlyphedMapStrings) => RecordedAs("b", "a")

\* C14 amended: after m(<size>:<c1><c2>) or m(:<c1><c2>) a successful
\* probe is recorded as c1 and a failed probe as c2.
C14_SuccessGlyphFirst ==
    (pc = "run" /\ opt \in GlyphedMapStrings) => RecordedAs("a", "b")

\* C14 witness: a render after m(3:ab) and the outcomes success, failure,
\* failure, success shows the last three as "bba".
C14_Witness ==
    /\ pc = "run"
    /\ opt = <<"-", "2", "s", ":">> \o MArg(<<"3", ":", "a", "b">>)
    /\ last = "render"
    /\ hist = <<TRUE, FALSE, FALSE, TRUE>>
    /\ emitted = <<"b", "b", "a">>

\* The option strings whose single option m has an argument list that is
\* empty, or holds a character that is neither a digit nor ':' before the
\* ':', or holds none, one or three characters after the ':'.
MalformedMapStrings ==
    { head \o <<":">> \o MArg(b) :
        head \in ParseHeads, b \in BadMapArgBodies \ {<<"0", ":", "a", "b">>} }

\* C15: parsing a string whose option m has such a malformed argument list
\* ends in the fatal syntax error and returns no descriptor.
C15_MalformedArgsRejected ==
    (pc # "start" /\ opt \in MalformedMapStrings) =>
        (pc = "parse_error" /\ cond = NULL /\ exit_code = PARSE_ERROR_STATUS)

\* The option lists of SpecParse with the option n once and no N, each with
\* the modifier n is written with.
SingleNTails ==
    { [tail |-> <<":", "n">>, modifier |-> " "],
      [tail |-> <<":", "+", "n">>, modifier |-> "+"],
      [tail |-> <<":", "-", "n">>, modifier |-> "-"],
      [tail |-> <<":", "x", "c", "n", "q">>, modifier |-> " "] }

\* The counts n requests, by its modifier and the sign of the count.
RequestedCounts(sign, modifier) ==
    IF modifier = "+" THEN {EXIT_REPORT_SUCCESS}
    ELSE IF modifier = "-" THEN {EXIT_REPORT_FAILURES}
    ELSE IF sign = <<"-">> THEN {EXIT_REPORT_SUCCESS}
    ELSE {EXIT_REPORT_FAILURES}

\* C16: after an accepted string with a single n, exactly one count is
\* requested: the success count for +n, the failure count for -n, and for
\* n alone the failure count when the condition counts successes and the
\* success count when it counts failures.
C16_NSelectsCount ==
    pc = "run" =>
        \A sign \in {<<>>, <<"-">>}, count \in ParseCounts,
           loc \in {<<>>, <<"s">>}, t \in SingleNTails :
            opt = sign \o count \o loc \o t.tail =>
                cond.flags \cap {EXIT_REPORT_SUCCESS, EXIT_REPORT_FAILURES}
                    = RequestedCounts(sign, t.modifier)

\* C16 witness: n alone after a count of failures requests the success
\* count only.
C16_Witness ==
    /\ pc = "run"
    /\ opt = <<"-", "2", ":", "n">>
    /\ cond.flags = {EXIT_COUNT_FAILED, EXIT_REPORT_SUCCESS}

\* The decimal value of the <count> texts of SpecParse, none counting as 0.
CountValue(text) ==
    CASE text = <<>> -> 0
      [] text = <<"0">> -> 0
      [] text = <<"2">> -> 2
      [] text = <<"0", "3">> -> 3
      [] text = <<"1", "0">> -> 10

\* The option lists of SpecParse that follow the syntax, each with the
\* flags its letters other than n request and the modifiers of its n's.
ValidTails ==
    { [tail |-> <<>>, flags |-> {}, n |-> {}],
      [tail |-> <<":">>, flags |-> {}, n |-> {}],
      [tail |-> <<":", "x">>, flags |-> {EXIT_COND_STATUS}, n |-> {}],
      [tail |-> <<":", "n">>, flags |-> {}, n |-> {" "}],
      [tail |-> <<":", "+", "n">>, flags |-> {}, n |-> {"+"}],
      [tail |-> <<":", "-", "n">>, flags |-> {}, n |-> {"-"}],
      [tail |-> <<":", "+", "n", "-", "n">>, flags |-> {}, n |-> {"+", "-"}],
      [tail |-> <<":", "N">>,
       flags |-> {EXIT_REPORT_SUCCESS, EXIT_REPORT_FAILURES}, n |-> {}],
      [tail |-> <<":", "c">>, flags |-> {EXIT_REPORT_STATE}, n |-> {}],
      [tail |-> <<":", "q">>, flags |-> {EXIT_REPORT_SILENT}, n |-> {}],
      [tail |-> <<":", "m">>, flags |-> {EXIT_REPORT_MAP}, n |-> {}],
      [tail |-> <<":">> \o MArg(<<"3", ":", "a", "b">>),
       flags |-> {EXIT_REPORT_MAP}, n |-> {}],
      [tail |-> <<":", "x", "c", "n", "q">>,
       flags |-> {EXIT_COND_STATUS, EXIT_REPORT_STATE, EXIT_REPORT_SILENT},
       n |-> {" "}] }

\* The flags of the descriptor parsed from sign, loc and the option list t.
ExpectedFlags(sign, loc, t) ==
    (IF sign = <<"-">> THEN {EXIT_COUNT_FAILED} ELSE {})
    \cup (IF loc = <<"s">> THEN {EXIT_SEQUENCE} ELSE {})
    \cup t.flags
    \cup UNION { RequestedCounts(sign, m) : m \in t.n }

\* C17: a string [-]<digits>[s][:<valid options>] is accepted iff the
\* decimal value of its digits is > 0; the descriptor then has expect equal
\* to the value, COUNT_FAILED iff the string starts with '-', SEQUENCE iff
\* 's' is present, and the report and exit-status options exactly as the
\* option letters request; every descriptor returned has expect > 0.
C17_CountPrefix ==
    /\ pc = "run" => cond.expect > 0
    /\ pc # "start" =>
         \A sign \in {<<>>, <<"-">>}, count \in ParseCounts,
            loc \in {<<>>, <<"s">>}, t \in ValidTails :
             opt = sign \o count \o loc \o t.tail =>
                 /\ pc = "run" <=> CountValue(count) > 0
                 /\ pc # "run" =>
                        /\ pc = "parse_error"
                        /\ cond = NULL
                        /\ exit_code = PARSE_ERROR_STATUS
                 /\ pc = "run" =>
                        /\ cond.expect = CountValue(count)
                        /\ cond.flags = ExpectedFlags(sign, loc, t)
                        /\ global_exit_cond_status # -1
                               <=> EXIT_COND_STATUS \in t.flags

\* C17 witness: "-03s:xcnq" is accepted with expect 3, counting failures
\* in sequence.
C17_Witness ==
    /\ pc = "run"
    /\ last = "parse"
    /\ opt = <<"-", "0", "3", "s", ":", "x", "c", "n", "q">>
    /\ cond.expect = 3
    /\ {EXIT_COUNT_FAILED, EXIT_SEQUENCE} \subseteq cond.flags

\* C18: after any accepted string that requests the map, m once or more
\* than once, and any records and renders, 0 <= mapper_pos <= map_size <=
\* max_map_size, and the assertion at the end of map_ping has not failed.
C18_MapBounds ==
    /\ pc # "abort"
    /\ (pc = "run" /\ EXIT_REPORT_MAP \in cond.flags) =>
           /\ 0 <= cond.mapper_pos
           /\ cond.mapper_pos <= cond.map_size
           /\ cond.map_size <= cond.max_map_size

\* The option string holds the letter m once.
SingleMapOption == Cardinality({i \in 1..Len(opt) : opt[i] = "m"}) = 1

\* The map is requested and no outcome has been recorded yet.
BeforeFirstRecord == pc = "run" /\ EXIT_REPORT_MAP \in cond.flags /\ hist = <<>>

\* C19 as stated: after the parse and before the first record the map is
\* unallocated, with capacity 0.
C19_LazyAllocation ==
    BeforeFirstRecord => (cond.ping_map = NULL /\ cond.map_size = 0)

\* C19 amended: the parse of the option m allocates the map; before the
\* first record it is allocated with map_size >= 1 and mapper_pos = 0,
\* with map_size = min(max_map_size, 512) when m occurs once, and the
\* first record allocates nothing: it leaves map_size as it is.
C19_AllocatedByParse ==
    [][BeforeFirstRecord =>
          /\ cond.ping_map # NULL
          /\ Len(cond.ping_map) = cond.map_size + 1
          /\ cond.map_size >= 1
          /\ cond.mapper_pos = 0
          /\ SingleMapOption => cond.map_size = Min(cond.max_map_size, 512)
          /\ cond'.map_size = cond.map_size]_vars

\* C19 witness: the first record after m(600:ab) found the 512 slots the
\* parse allocated.
C19_Witness ==
    /\ pc = "run"
    /\ opt = <<"2", ":">> \o LargeMapOption
    /\ Len(hist) = 1
    /\ cond.max_map_size = 600
    /\ cond.map_size = 512
    /\ cond.mapper_pos = 1

\* The step is a record: a call that evaluated one new outcome.
RecordStep == last' = "check" /\ delta' \in {<<1, 0>>, <<0, 1>>}

\* C20: no call of the subsystem fails and map_size never decreases; it
\* changes only in a record that finds mapper_pos = map_size <
\* max_map_size, and such a record makes it min(map_size + 512,
\* max_map_size), writes the new glyph at the old mapper_pos and keeps
\* every stored glyph; a record that finds mapper_pos = map_size =
\* max_map_size leaves map_size, writes the new glyph at index 0 and sets
\* mapper_pos to 1.
C20_CapacityGrowth ==
    [][(pc = "run" /\ EXIT_REPORT_MAP \in cond.flags) =>
          LET full  == cond.mapper_pos = cond.map_size
              glyph == Glyph(cond, hist'[Len(hist')])
          IN  /\ pc' = "run"
              /\ cond'.map_size >= cond.map_size
              /\ cond'.map_size # cond.map_size =>
                     (RecordStep /\ full /\ cond.map_size < cond.max_map_size)
              /\ (RecordStep /\ full /\ cond.map_size < cond.max_map_size) =>
                     /\ cond'.map_size = Min(cond.map_size + 512, cond.max_map_size)
                     /\ Byte(cond'.ping_map, cond.mapper_pos) = glyph
                     /\ cond'.mapper_pos = cond.mapper_pos + 1
                     /\ \A i \in 0..(cond.map_size - 1) :
                            Byte(cond'.ping_map, i) = Byte(cond.ping_map, i)
              /\ (RecordStep /\ full /\ cond.map_size = cond.max_map_size) =>
                     /\ cond'.map_size = cond.map_size
                     /\ Byte(cond'.ping_map, 0) = glyph
                     /\ cond'.mapper_pos = 1]_vars

\* C20 witness: a map of 1026 slots that grew from 512 to 1024 and to
\* 1026 and then wrapped around to index 0.
C20_Witness ==
    /\ pc = "run"
    /\ last = "check"
    /\ cond.max_map_size = 1026
    /\ cond.map_size = 1026
    /\ Len(hist) = 1027
    /\ cond.mapper_pos = 1

\* The option string holds the option x.
XParsed == \E i \in 1..Len(opt) : opt[i] = "x"

\* The place of a status in the order disabled, armed-unmet, armed-met.
StatusRank(g) == g + 1

\* The status agrees with the descriptor of an accepted string.
StatusConsistent ==
    pc \in {"run", "abort", "exited"} =>
        /\ Disabled \/ ArmedUnmet \/ ArmedMet
        /\ Disabled <=> ~XParsed
        /\ ArmedMet <=> (XParsed /\ cond.condition_met)

\* C21: no step moves the process-wide status back in the order disabled,
\* armed-unmet, armed-met, and after the parse of an accepted string it is
\* disabled iff no x was parsed and armed-met iff x was parsed and
\* condition_met is true.
C21_StatusMonotone ==
    [][/\ StatusRank(global_exit_cond_status') >= StatusRank(global_exit_cond_status)
       /\ StatusConsistent
       /\ StatusConsistent']_vars

\* C21 witness: "2s:x" armed the status at the parse, the second success
\* in a row set it to met, and the failure after it left it met.
C21_Witness ==
    /\ pc = "run"
    /\ opt = <<"2", "s", ":", "x">>
    /\ hist = <<TRUE, TRUE, FALSE>>
    /\ ret = FALSE
    /\ ArmedMet
    /\ cond.condition_met

\* The fields of a report line: the text without the label and the line
\* terminator, cut at each '/'.
RECURSIVE SplitFields(_)
SplitFields(line) ==
    LET seps == {i \in 1..Len(line) : line[i] = "/"}
    IN  IF seps = {} THEN <<line>>
        ELSE <<SubSeq(line, 1, SetMin(seps) - 1)>>
             \o SplitFields(SubSeq(line, SetMin(seps) + 1, Len(line)))

ReportFields(text) ==
    LET from == IF Labelled(text) THEN Len(REPORT_LABEL) + 1 ELSE 1
    IN  SplitFields(SubSeq(text, from, Len(text) - 1))

\* The number a field of digits writes, or -1 for any other text.
RECURSIVE DecimalValue(_)
DecimalValue(text) ==
    IF text = <<>> \/ \E i \in 1..Len(text) : ~isdigit(text[i]) THEN -1
    ELSE IF Len(text) = 1 THEN DigitValue(text[1])
    ELSE DecimalValue(SubSeq(text, 1, Len(text) - 1)) * 10
         + DigitValue(text[Len(text)])

\* The place of the success count and of the failure count among the
\* fields of a report of the descriptor c.
SuccessField(c) == IF EXIT_REPORT_STATE \in c.flags THEN 2 ELSE 1
FailureField(c) ==
    SuccessField(c) + (IF EXIT_REPORT_SUCCESS \in c.flags THEN 1 ELSE 0)

\* C22: after calls that each bring no outcome or one, the stored totals
\* are the caller's latest totals, and the success count and the failure
\* count a report prints are the numbers of success and of failure
\* outcomes evaluated so far: not negative, and summing to the number of
\* calls that brought an outcome when both are printed.
C22_CountsMatchHistory ==
    pc = "run" =>
        /\ cond.ntransmitted = rts.ntransmitted
        /\ cond.nreceived = rts.nreceived
        /\ rts.ntransmitted = Len(hist)
        /\ rts.nreceived = SuccessCount(hist)
        /\ (last = "report" /\ emitted # <<>>) =>
               LET fs == ReportFields(emitted)
                   ns == DecimalValue(fs[SuccessField(cond)])
                   nf == DecimalValue(fs[FailureField(cond)])
               IN  /\ EXIT_REPORT_SUCCESS \in cond.flags =>
                          (ns >= 0 /\ ns = SuccessCount(hist))
                   /\ EXIT_REPORT_FAILURES \in cond.flags =>
                          (nf >= 0 /\ nf = Len(hist) - SuccessCount(hist))
                   /\ {EXIT_REPORT_SUCCESS, EXIT_REPORT_FAILURES} \subseteq cond.flags =>
                          ns + nf = Len(hist)

\* C22 witness: a report of both counts after twelve probes, all of them
\* successes.
C22_Witness ==
    /\ pc = "run"
    /\ last = "report"
    /\ opt = <<"2", ":", "N">>
    /\ Len(hist) = 12
    /\ SuccessCount(hist) = 12
    /\ emitted = <<"1", "2", "/", "0", "\n">>
====
